---- MODULE Spec2Model ----
(***************************************************************************)
(* snakelog: the line classifier (parse_rule_grammar), the job record      *)
(* assembler (SnakeObject.__parse_jobs_in_log), the run summarizer         *)
(* (SnakeObject._execution_summary) and the status view                    *)
(* (SnakeObject.status, SnakeObject._stats) of src/snakelog/cli.py.        *)
(*                                                                         *)
(* A Python str is a sequence of one-character strings, so that prefix     *)
(* tests, strip and split are computed on the text itself.  None and the   *)
(* empty str are both the empty sequence wherever the code only tests      *)
(* truthiness.                                                             *)
(***************************************************************************)
EXTENDS Integers, Sequences, FiniteSets, TLC

\* The number of segments (job blocks or single lines) a generated log holds.
MaxSegs == 3

-----------------------------------------------------------------------------
(* Python's str and re operations used by cli.py *)

\* The whitespace str.strip() and str.split() remove (of the log's alphabet).
WS == {" ", "\t", "\n"}

DIGITS == {"0", "1", "2", "3", "4", "5", "6", "7", "8", "9"}

DigitVal(c) ==
    CASE c = "0" -> 0 [] c = "1" -> 1 [] c = "2" -> 2 [] c = "3" -> 3
      [] c = "4" -> 4 [] c = "5" -> 5 [] c = "6" -> 6 [] c = "7" -> 7
      [] c = "8" -> 8 [] c = "9" -> 9

\* s.startswith(p)
startswith(s, p) == Len(p) <= Len(s) /\ SubSeq(s, 1, Len(p)) = p

\* p in s
contains(s, p) ==
    \E i \in 1..(Len(s) - Len(p) + 1) : SubSeq(s, i, i + Len(p) - 1) = p

RECURSIVE lstrip(_, _)
lstrip(s, cs) == IF s # <<>> /\ Head(s) \in cs THEN lstrip(Tail(s), cs) ELSE s

RECURSIVE rstrip(_, _)
rstrip(s, cs) ==
    IF s # <<>> /\ s[Len(s)] \in cs THEN rstrip(SubSeq(s, 1, Len(s) - 1), cs) ELSE s

\* s.strip(chars); s.strip() is strip(s, WS)
strip(s, cs) == rstrip(lstrip(s, cs), cs)

\* The least index of s holding a character of cs, or Len(s) + 1.
find(s, cs) ==
    IF \E i \in 1..Len(s) : s[i] \in cs
    THEN CHOOSE i \in 1..Len(s) : s[i] \in cs /\ \A j \in 1..(i - 1) : s[j] \notin cs
    ELSE Len(s) + 1

\* s.split(sep) for a one-character sep: empty pieces are kept.
RECURSIVE split(_, _)
split(s, sep) ==
    LET i == find(s, {sep})
    IN  IF i > Len(s) THEN <<s>>
        ELSE <<SubSeq(s, 1, i - 1)>> \o split(SubSeq(s, i + 1, Len(s)), sep)

\* s.split(): runs of whitespace separate, no empty pieces.
RECURSIVE split_ws(_)
split_ws(s) ==
    LET t == lstrip(s, WS)
        i == find(t, WS)
    IN  IF t = <<>> THEN <<>>
        ELSE <<SubSeq(t, 1, i - 1)>> \o split_ws(SubSeq(t, i, Len(t)))

\* re.findall(r"\d+", s): the maximal runs of digits, left to right.
RECURSIVE findall_digits(_)
findall_digits(s) ==
    LET i == find(s, DIGITS)
        t == SubSeq(s, i, Len(s))
        n == IF \E k \in 1..Len(t) : t[k] \notin DIGITS
             THEN (CHOOSE k \in 1..Len(t) :
                      t[k] \notin DIGITS /\ \A j \in 1..(k - 1) : t[j] \in DIGITS) - 1
             ELSE Len(t)
    IN  IF i > Len(s) THEN <<>>
        ELSE <<SubSeq(t, 1, n)>> \o findall_digits(SubSeq(t, n + 1, Len(t)))

\* int(s) of a str: surrounding whitespace and one sign are accepted, then
\* only digits (the alphabet has no "_" between digits).
int_body(s) ==
    LET t == strip(s, WS)
    IN  IF t # <<>> /\ Head(t) \in {"+", "-"} THEN Tail(t) ELSE t

int_ok(s) == int_body(s) # <<>> /\ \A i \in 1..Len(int_body(s)) : int_body(s)[i] \in DIGITS

RECURSIVE digits_value(_)
digits_value(d) ==
    IF d = <<>> THEN 0 ELSE 10 * digits_value(SubSeq(d, 1, Len(d) - 1)) + DigitVal(d[Len(d)])

int_value(s) ==
    IF strip(s, WS) # <<>> /\ Head(strip(s, WS)) = "-"
    THEN 0 - digits_value(int_body(s))
    ELSE digits_value(int_body(s))

-----------------------------------------------------------------------------
(* Python values: every value has the same shape, so that two values of    *)
(* different Python types compare as unequal.                              *)

PyStr(s)  == [t |-> "str",  n |-> 0, s |-> s,    l |-> <<>>, m |-> {}]
PyInt(n)  == [t |-> "int",  n |-> n, s |-> <<>>, l |-> <<>>, m |-> {}]
PyList(l) == [t |-> "list", n |-> 0, s |-> <<>>, l |-> l,    m |-> {}]
\* A dict of str to str is the set of its <<key, value>> items.
PyDict(m) == [t |-> "dict", n |-> 0, s |-> <<>>, l |-> <<>>, m |-> m]
\* datetime returned by dateutil's parser.parse, kept as the text it was read from.
PyDatetime(s) == [t |-> "datetime", n |-> 0, s |-> s, l |-> <<>>, m |-> {}]

\* {k: v for k, v in pairs}: a later item replaces an earlier one of the same key.
dict_of(pairs) ==
    { <<pairs[i][1], pairs[i][2]>> :
        i \in { i \in 1..Len(pairs) :
                  \A j \in (i + 1)..Len(pairs) : pairs[j][1] # pairs[i][1] } }

\* An empty dict: no key.
EmptyDict == [k \in {} |-> PyInt(0)]

\* d.update(u), as a new mapping
update(d, u) == u @@ d

-----------------------------------------------------------------------------
(* Module constants *)

ERROR_LABELS == {
    <<"S","y","n","t","a","x","E","r","r","o","r">>,
    <<"I","n","d","e","n","t","a","t","i","o","n","E","r","r","o","r">>,
    <<"O","S","E","r","r","o","r">>,
    <<"M","i","s","s","i","n","g","I","n","p","u","t","E","x","c","e","p","t","i","o","n">>,
    <<"M","i","s","s","i","n","g","O","u","t","p","u","t","E","x","c","e","p","t","i","o","n">>,
    <<"A","t","t","r","i","b","u","t","e","E","r","r","o","r">>,
    <<"W","o","r","k","f","l","o","w","E","r","r","o","r">>,
    <<"I","n","c","o","m","p","l","e","t","e","F","i","l","e","s","E","x","c","e","p","t","i","o","n">>,
    <<"A","m","b","i","g","u","o","u","s","R","u","l","e","E","x","c","e","p","t","i","o","n">>,
    <<"K","e","y","E","r","r","o","r">>,
    <<"N","a","m","e","E","r","r","o","r">>,
    <<"W","i","l","d","c","a","r","d","E","r","r","o","r">>,
    <<"E","x","c","e","p","t","i","o","n">>,
    <<"E","r","r","o","r",":">>,
    <<"[","E","r","r","n","o">>,
    <<"K","e","y","b","o","a","r","d","I","n","t","e","r","r","u","p","t">>,
    <<"E","x","i","t","i","n","g"," ","b","e","c","a","u","s","e">>,
    <<"T","e","r","m","i","n","a","t","i","n","g">>,
    \* one of the names of snakemake.exceptions that end in "Exception"
    <<"R","u","l","e","E","x","c","e","p","t","i","o","n">> }

\* any([line.startswith(x) for x in ERROR_LABELS])
has_error_label(line) == \E x \in ERROR_LABELS : startswith(line, x)

-----------------------------------------------------------------------------
(* parse_rule_grammar(line, job_dict): either the update it returns or the *)
(* exception it raises.                                                    *)

Return(u) == [exc |-> "", upd |-> u]
Raise(e)  == [exc |-> e, upd |-> EmptyDict]

\* line.strip(":").split()[1]
rule_name(line) ==
    LET toks == split_ws(strip(line, {":"}))
    IN  IF Len(toks) < 2 THEN Raise("IndexError")
        ELSE Return("rule" :> PyStr(toks[2]))

\* line.strip(":").split()[-1], with status failed
error_in_rule(line) ==
    LET toks == split_ws(strip(line, {":"}))
    IN  IF toks = <<>> THEN Raise("IndexError")
        ELSE Return(("rule" :> PyStr(toks[Len(toks)])) @@ ("status" :> PyStr(<<"f","a","i","l","e","d">>)))

\* re.findall(r"\d+", line)[0]
cluster_jobid(line) ==
    LET runs == findall_digits(line)
    IN  IF runs = <<>> THEN Raise("IndexError")
        ELSE Return("external_jobid" :> PyStr(runs[1]))

\* line.strip(".").split()[-1], with status finished
finished_job(line) ==
    LET toks == split_ws(strip(line, {"."}))
    IN  IF toks = <<>> THEN Raise("IndexError")
        ELSE Return(("status" :> PyStr(<<"f","i","n","i","s","h","e","d">>)) @@ ("jobid" :> PyStr(toks[Len(toks)])))

\* [x.strip() for x in line.split(":")[1].split(",")]
path_list(key, line) ==
    LET parts == split(line, ":")
        items == IF Len(parts) < 2 THEN <<>> ELSE split(parts[2], ",")
    IN  IF Len(parts) < 2 THEN Raise("IndexError")
        ELSE Return(key :> PyList([i \in 1..Len(items) |-> strip(items[i], WS)]))

\* {k: v for k, v in [x.strip().split("=") for x in line.split(":")[1].split(",")]}
kv_mapping(key, line) ==
    LET parts == split(line, ":")
        items == IF Len(parts) < 2 THEN <<>> ELSE split(parts[2], ",")
        pairs == [i \in 1..Len(items) |-> split(strip(items[i], WS), "=")]
    IN  IF Len(parts) < 2 THEN Raise("IndexError")
        ELSE IF \E i \in 1..Len(pairs) : Len(pairs[i]) # 2 THEN Raise("ValueError")
        ELSE Return(key :> PyDict(dict_of(pairs)))

\* int(line.split(":")[1].strip())
int_field(key, line) ==
    LET parts == split(line, ":")
    IN  IF Len(parts) < 2 THEN Raise("IndexError")
        ELSE IF ~int_ok(parts[2]) THEN Raise("ValueError")
        ELSE Return(key :> PyInt(int_value(parts[2])))

\* line.split(":")[1].strip()
log_path(line) ==
    LET parts == split(line, ":")
    IN  IF Len(parts) < 2 THEN Raise("IndexError")
        ELSE Return("log" :> PyStr(strip(parts[2], WS)))

\* the second run of digits, or the empty list when the line has none
submitted(line) ==
    LET runs == findall_digits(line)
    IN  IF runs = <<>>
        THEN Return(("external_jobid" :> PyList(<<>>)) @@ ("status" :> PyStr(<<"s","u","b","m","i","t","t","e","d">>)))
        ELSE IF Len(runs) < 2 THEN Raise("IndexError")
        ELSE Return(("external_jobid" :> PyStr(runs[2])) @@ ("status" :> PyStr(<<"s","u","b","m","i","t","t","e","d">>)))

\* job_dict.get("status", None) != "finished"
not_finished(job_dict) ==
    ~("status" \in DOMAIN job_dict /\ job_dict["status"] = PyStr(<<"f","i","n","i","s","h","e","d">>))

\* the same test without the guard on the record's status
error_label_any_status(line, job_dict) == has_error_label(line)

\* the last elif: an error label on a record that is not finished
error_label_branch(line, job_dict) == has_error_label(line) /\ not_finished(job_dict)

parse_rule_grammar(line, job_dict) ==
    IF startswith(line, <<"r","u","l","e">>) \/ startswith(line, <<"l","o","c","a","l","r","u","l","e">>) THEN rule_name(line)
    ELSE IF startswith(line, <<"E","r","r","o","r"," ","i","n">>) THEN error_in_rule(line)
    ELSE IF startswith(line, <<"c","l","u","s","t","e","r","_","j","o","b","i","d">>) THEN cluster_jobid(line)
    ELSE IF startswith(line, <<"F","i","n","i","s","h","e","d">>) THEN finished_job(line)
    ELSE IF startswith(line, <<"i","n","p","u","t">>) THEN path_list("input", line)
    ELSE IF startswith(line, <<"o","u","t","p","u","t">>) THEN path_list("output", line)
    ELSE IF startswith(line, <<"E","r","r","o","r">>) THEN Return("status" :> PyStr(<<"f","a","i","l","e","d">>))
    ELSE IF startswith(line, <<"p","a","r","a","m","s">>) THEN kv_mapping("params", line)
    ELSE IF startswith(line, <<"w","i","l","d","c","a","r","d","s">>) THEN kv_mapping("wildcards", line)
    ELSE IF startswith(line, <<"r","e","s","o","u","r","c","e","s">>) THEN kv_mapping("resources", line)
    ELSE IF startswith(line, <<"j","o","b","i","d">>) THEN int_field("jobid", line)
    ELSE IF startswith(line, <<"l","o","g">>) THEN log_path(line)
    ELSE IF startswith(line, <<"t","h","r","e","a","d","s">>) THEN int_field("threads", line)
    ELSE IF startswith(line, <<"S","u","b","m","i","t","t","e","d">>) THEN submitted(line)
    ELSE IF error_label_branch(line, job_dict) THEN Return("status" :> PyStr(<<"f","a","i","l","e","d">>))
    ELSE Return("kwargs" :> PyStr(strip(line, WS)))

-----------------------------------------------------------------------------
(* The lines and records the classifier is applied to *)

ClassifierLines == {
    <<"r","u","l","e"," ","a",":">>,
    <<"r","u","l","e"," ","a","l","l">>,
    <<"r","u","l","e">>,
    <<"r","u","l","e",":">>,
    <<"l","o","c","a","l","r","u","l","e"," ","b",":">>,
    <<"l","o","c","a","l","r","u","l","e">>,
    <<"r","u","l","e","s">>,
    <<"E","r","r","o","r"," ","i","n"," ","r","u","l","e"," ","a",":">>,
    <<"E","r","r","o","r"," ","i","n"," ","j","o","b"," ","b"," ","w","h","i","l","e"," ","c","r","e","a","t","i","n","g"," ","o","u","t","p","u","t"," ","f","i","l","e"," ","c",".">>,
    <<"E","r","r","o","r"," ","i","n">>,
    <<"c","l","u","s","t","e","r","_","j","o","b","i","d",":"," ","7","7">>,
    <<"c","l","u","s","t","e","r","_","j","o","b","i","d">>,
    <<"F","i","n","i","s","h","e","d"," ","j","o","b"," ","1",".">>,
    <<"F","i","n","i","s","h","e","d">>,
    <<"F","i","n","i","s","h","e","d"," ","j","o","b"," ","x",".">>,
    <<"i","n","p","u","t",":"," ","a",".","t","x","t",","," ","b",".","t","x","t">>,
    <<"i","n","p","u","t",":"," ","a",".","t","x","t">>,
    <<"i","n","p","u","t">>,
    <<"i","n","p","u","t",":">>,
    <<"i","n","p","u","t",":"," ","a",":","b",","," ","c">>,
    <<"o","u","t","p","u","t",":"," ","a",".","t","x","t",","," ","b",".","t","x","t">>,
    <<"o","u","t","p","u","t",":"," ","s","i","n","g","l","e","_","f","i","l","e",".","t","x","t">>,
    <<"o","u","t","p","u","t">>,
    <<"o","u","t","p","u","t",":">>,
    <<"o","u","t","p","u","t",":"," ","a",":","b">>,
    <<"E","r","r","o","r",":"," ","x">>,
    <<"E","r","r","o","r">>,
    <<"E","r","r","o","r"," ","e","x","e","c","u","t","i","n","g"," ","r","u","l","e"," ","a"," ","o","n"," ","c","l","u","s","t","e","r"," ","(","j","o","b","i","d",":"," ","2",","," ","e","x","t","e","r","n","a","l",":"," ","7","7",")",".">>,
    <<"p","a","r","a","m","s",":"," ","k","1","=","v","1",","," ","k","2","=","v","2">>,
    <<"p","a","r","a","m","s">>,
    <<"p","a","r","a","m","s",":">>,
    <<"p","a","r","a","m","s",":"," ","a">>,
    <<"p","a","r","a","m","s",":"," ","t","=","1",":","2">>,
    <<"p","a","r","a","m","s",":"," ","k","=","v",","," ","k","=","w">>,
    <<"p","a","r","a","m","s",":"," ","a","=","b","=","c">>,
    <<"w","i","l","d","c","a","r","d","s",":"," ","s","=","A">>,
    <<"w","i","l","d","c","a","r","d","s">>,
    <<"w","i","l","d","c","a","r","d","s",":">>,
    <<"w","i","l","d","c","a","r","d","s",":"," ","s","=","A",":","B">>,
    <<"r","e","s","o","u","r","c","e","s",":"," ","m","e","m","=","1">>,
    <<"r","e","s","o","u","r","c","e","s">>,
    <<"r","e","s","o","u","r","c","e","s",":">>,
    <<"j","o","b","i","d",":"," ","1","2","3">>,
    <<"j","o","b","i","d">>,
    <<"j","o","b","i","d",":">>,
    <<"j","o","b","i","d",":"," ","x">>,
    <<"j","o","b","i","d",":","7">>,
    <<"j","o","b","i","d",":"," ","1",":","2">>,
    <<"l","o","g",":"," ","/","p","a","t","h","/","t","o","/","l","o","g",".","t","x","t">>,
    <<"l","o","g">>,
    <<"l","o","g",":">>,
    <<"l","o","g",":"," ","a",":","b">>,
    <<"t","h","r","e","a","d","s",":"," ","4">>,
    <<"t","h","r","e","a","d","s">>,
    <<"t","h","r","e","a","d","s",":">>,
    <<"t","h","r","e","a","d","s",":"," ","x">>,
    <<"S","u","b","m","i","t","t","e","d"," ","j","o","b"," ","1"," ","w","i","t","h"," ","e","x","t","e","r","n","a","l"," ","j","o","b","i","d"," ","7","7",".">>,
    <<"S","u","b","m","i","t","t","e","d"," ","j","o","b"," ","1">>,
    <<"S","u","b","m","i","t","t","e","d">>,
    <<"S","y","n","t","a","x","E","r","r","o","r"," ","i","n"," ","l","i","n","e"," ","3">>,
    <<"I","n","d","e","n","t","a","t","i","o","n","E","r","r","o","r">>,
    <<"O","S","E","r","r","o","r">>,
    <<"M","i","s","s","i","n","g","I","n","p","u","t","E","x","c","e","p","t","i","o","n"," ","i","n"," ","l","i","n","e"," ","1">>,
    <<"M","i","s","s","i","n","g","O","u","t","p","u","t","E","x","c","e","p","t","i","o","n">>,
    <<"A","t","t","r","i","b","u","t","e","E","r","r","o","r">>,
    <<"W","o","r","k","f","l","o","w","E","r","r","o","r",":">>,
    <<"I","n","c","o","m","p","l","e","t","e","F","i","l","e","s","E","x","c","e","p","t","i","o","n",":">>,
    <<"A","m","b","i","g","u","o","u","s","R","u","l","e","E","x","c","e","p","t","i","o","n">>,
    <<"K","e","y","E","r","r","o","r">>,
    <<"N","a","m","e","E","r","r","o","r">>,
    <<"W","i","l","d","c","a","r","d","E","r","r","o","r">>,
    <<"E","x","c","e","p","t","i","o","n">>,
    <<"E","r","r","o","r",":"," ","y"," ","z">>,
    <<"[","E","r","r","n","o"," ","2","]"," ","N","o"," ","s","u","c","h"," ","f","i","l","e">>,
    <<"K","e","y","b","o","a","r","d","I","n","t","e","r","r","u","p","t">>,
    <<"E","x","i","t","i","n","g"," ","b","e","c","a","u","s","e"," ","a"," ","j","o","b"," ","e","x","e","c","u","t","i","o","n"," ","f","a","i","l","e","d",".">>,
    <<"T","e","r","m","i","n","a","t","i","n","g"," ","p","r","o","c","e","s","s","e","s"," ","o","n"," ","u","s","e","r"," ","r","e","q","u","e","s","t">>,
    <<"R","u","l","e","E","x","c","e","p","t","i","o","n",":">>,
    <<"1"," ","o","f"," ","2"," ","s","t","e","p","s"," ","(","5","0","%",")"," ","d","o","n","e">>,
    <<"B","u","i","l","d","i","n","g"," ","D","A","G"," ","o","f"," ","j","o","b","s",".",".",".">>,
    <<"r","e","a","s","o","n",":"," ","M","i","s","s","i","n","g"," ","o","u","t","p","u","t"," ","f","i","l","e","s",":"," ","a",".","t","x","t">>,
    <<"S","e","l","e","c","t"," ","j","o","b","s"," ","t","o"," ","e","x","e","c","u","t","e",".",".",".">>,
    <<"N","o","t","h","i","n","g"," ","t","o"," ","b","e"," ","d","o","n","e",".">>,
    <<"U","n","l","o","c","k","i","n","g"," ","w","o","r","k","i","n","g"," ","d","i","r","e","c","t","o","r","y",".">> }

\* The records accumulated so far: no status yet, or one of the three statuses.
ClassifierRecords == {
    EmptyDict,
    "rule" :> PyStr(<<"a">>),
    "status" :> PyStr(<<"f","i","n","i","s","h","e","d">>),
    "status" :> PyStr(<<"f","a","i","l","e","d">>),
    "status" :> PyStr(<<"s","u","b","m","i","t","t","e","d">>) }

-----------------------------------------------------------------------------
(* The log files the assembler is run on: an optional statistics table and *)
(* up to MaxSegs segments, each a job block or a single line.  Every line  *)
(* of a file ends with its newline.                                        *)

TS == <<"[","M","o","n"," ","J","a","n"," ","1"," ","1","0",":","0","0",":","0","0"," ","2","0","2","4","]","\n">>

SegmentNames ==
    {"B1", "B2", "B3", "F1", "E2", "NJ", "BadId", "U", "N", "W", "En"}

SegmentLines(name) ==
    CASE name = "B1" -> <<TS, <<"r","u","l","e"," ","a",":","\n">>, <<" "," "," "," ","j","o","b","i","d",":"," ","1","\n">>>>
      [] name = "B2" -> <<TS, <<"r","u","l","e"," ","a",":","\n">>, <<" "," "," "," ","j","o","b","i","d",":"," ","2","\n">>, <<"\n">>>>
      [] name = "B3" -> <<TS, <<"l","o","c","a","l","r","u","l","e"," ","b",":","\n">>, <<" "," "," "," ","j","o","b","i","d",":"," ","3","\n">>>>
      [] name = "F1" -> <<TS, <<"F","i","n","i","s","h","e","d"," ","j","o","b"," ","1",".","\n">>>>
      [] name = "E2" -> <<TS, <<"E","r","r","o","r"," ","i","n"," ","r","u","l","e"," ","a",":","\n">>, <<" "," "," "," ","j","o","b","i","d",":"," ","2","\n">>>>
      [] name = "NJ" -> <<TS, <<"r","u","l","e"," ","a",":","\n">>>>
      [] name = "BadId" -> <<TS, <<"r","u","l","e"," ","a",":","\n">>, <<" "," "," "," ","j","o","b","i","d",":"," ","x","\n">>>>
      [] name = "U"  -> <<<<"U","n","l","o","c","k","i","n","g"," ","w","o","r","k","i","n","g"," ","d","i","r","e","c","t","o","r","y",".","\n">>>>
      [] name = "N"  -> <<<<"N","o","t","h","i","n","g"," ","t","o"," ","b","e"," ","d","o","n","e",".","\n">>>>
      [] name = "W"  -> <<<<"W","o","r","k","f","l","o","w","E","r","r","o","r",":","\n">>>>
      [] name = "En" -> <<<<"[","E","r","r","n","o"," ","2","]"," ","N","o"," ","s","u","c","h"," ","f","i","l","e","\n">>>>

TableNames == {"none", "planned2", "planned0", "nototal"}

TableLines(name) ==
    CASE name = "none" -> <<>>
      [] name = "planned2" ->
            <<<<"-","-","-","-","-"," "," ","-","-","-","-","-","-","-","\n">>, <<"a"," ","2"," ","1"," ","1","\n">>, <<"t","o","t","a","l"," ","2"," ","1"," ","1","\n">>, <<"S","e","l","e","c","t"," ","j","o","b","s"," ","t","o"," ","e","x","e","c","u","t","e",".",".",".","\n">>>>
      [] name = "planned0" ->
            <<<<"-","-","-","-","-"," "," ","-","-","-","-","-","-","-","\n">>, <<"t","o","t","a","l"," ","0"," ","1"," ","1","\n">>, <<"S","e","l","e","c","t"," ","j","o","b","s"," ","t","o"," ","e","x","e","c","u","t","e",".",".",".","\n">>>>
      [] name = "nototal" ->
            <<<<"-","-","-","-","-"," "," ","-","-","-","-","-","-","-","\n">>, <<"a"," ","2"," ","1"," ","1","\n">>, <<"S","e","l","e","c","t"," ","j","o","b","s"," ","t","o"," ","e","x","e","c","u","t","e",".",".",".","\n">>>>

RECURSIVE Concat(_)
Concat(ss) == IF ss = <<>> THEN <<>> ELSE SegmentLines(Head(ss)) \o Concat(Tail(ss))

SegSeqs == UNION { [1..n -> SegmentNames] : n \in 0..MaxSegs }

\* dateutil's parser.parse: the timestamp of a block header is read, any other
\* text is refused with a ParserError.
parseable(text) == text = strip(TS, {"[", "]", "\n"})

-----------------------------------------------------------------------------
VARIABLES
    pc,            \* where the program is
    table, segs,   \* the log file: its statistics table and its segments
    pos,           \* how many lines the file iterator f has yielded
    begin,         \* the line the outer loop looks at next, or None
    line,          \* the line at hand
    job_dict,      \* the record being accumulated
    result,        \* what parse_rule_grammar returned or raised
    jobs,          \* jobid -> record
    err, msg,      \* the outcome of the parse
    exc,           \* the exception that ended the run, if any
    summary_dict,  \* rule -> counts
    report         \* what the status view shows

vars == <<pc, table, segs, pos, begin, line, job_dict, result, jobs, err, msg,
          exc, summary_dict, report>>

None == <<>>
NoExc == [type |-> "", where |-> ""]

\* class SnakemakeStatus(Enum); err is one of its members or "None"
SnakemakeStatus == {"SUCCESS", "ERROR", "UNLOCKED", "CATCHALL_ERROR"}

\* the lines of the log file
log == TableLines(table) \o Concat(segs)
EmptyJobs == [k \in {} |-> EmptyDict]
NoReport == [total_finished |-> 0, total_failed |-> 0, pct_finished |-> 0,
             pct_failed |-> 0, phrase |-> ""]

-----------------------------------------------------------------------------
(* One call of the classifier on one trimmed, non-empty line. *)

InitClassify ==
    /\ pc = "call"
    /\ line \in ClassifierLines
    /\ job_dict \in ClassifierRecords
    /\ result = Return(EmptyDict)
    /\ table = "none" /\ segs = <<>> /\ pos = 0 /\ begin = None
    /\ jobs = EmptyJobs /\ err = "None" /\ msg = "" /\ exc = NoExc
    /\ summary_dict = EmptyDict /\ report = NoReport

Classify ==
    /\ pc = "call"
    /\ result' = parse_rule_grammar(line, job_dict)
    /\ pc' = "returned"
    /\ UNCHANGED <<table, segs, pos, begin, line, job_dict, jobs, err, msg, exc,
                   summary_dict, report>>

NextClassify == Classify

SpecClassify == InitClassify /\ [][NextClassify]_vars

-----------------------------------------------------------------------------
(* SnakeObject.__parse_jobs_in_log *)

\* next(f, None), and the iterator's position after it
next_line == IF pos < Len(log) THEN log[pos + 1] ELSE None
next_pos  == IF pos < Len(log) THEN pos + 1 ELSE pos

\* an exception that nothing catches: its type and the function it leaves
Abort(e, where) ==
    /\ pc' = "raised"
    /\ exc' = [type |-> e, where |-> where]

Init ==
    /\ pc = "open"
    /\ table \in TableNames
    /\ segs \in SegSeqs
    /\ pos = 0 /\ begin = None /\ line = None
    /\ job_dict = EmptyDict /\ result = Return(EmptyDict)
    /\ jobs = EmptyJobs /\ err = "None" /\ msg = "" /\ exc = NoExc
    /\ summary_dict = EmptyDict /\ report = NoReport

\* err, msg, jobs, begin = None, "", defaultdict(dict), next(f)
Open ==
    /\ pc = "open"
    /\ IF log = <<>>
       THEN Abort("StopIteration", "__parse_jobs_in_log") /\ UNCHANGED <<pos, begin>>
       ELSE pc' = "scan" /\ pos' = 1 /\ begin' = log[1] /\ UNCHANGED exc
    /\ UNCHANGED <<table, segs, line, job_dict, result, jobs, err, msg,
                   summary_dict, report>>

\* line.startswith("[") and not "error" in line
opens_block(l) == startswith(l, <<"[">>) /\ ~contains(l, <<"e","r","r","o","r">>)

\* the timestamp line of a block: a new record with its timestamp
OpenBlock ==
    /\ pc = "scan" /\ begin # None /\ opens_block(begin)
    /\ line' = begin
    /\ LET text == strip(begin, {"[", "]", "\n"})
       IN  IF parseable(text)
           THEN /\ job_dict' = ("timestamp" :> PyDatetime(text))
                /\ pc' = "block"
                /\ UNCHANGED exc
           ELSE /\ Abort("ParserError", "__parse_jobs_in_log")
                /\ job_dict' = EmptyDict
    /\ UNCHANGED <<table, segs, pos, begin, result, jobs, err, msg,
                   summary_dict, report>>

\* one pass of the inner loop over a line of the block
BlockLine ==
    /\ pc = "block" /\ next_line # None /\ ~startswith(next_line, <<"[">>)
    /\ pos' = next_pos
    /\ IF strip(next_line, WS) = <<>>
       THEN UNCHANGED <<pc, exc, job_dict, result>>
       ELSE LET r == parse_rule_grammar(strip(next_line, WS), job_dict)
            IN  /\ result' = r
                /\ IF r.exc # ""
                   THEN Abort(r.exc, "__parse_jobs_in_log") /\ UNCHANGED job_dict
                   ELSE job_dict' = update(job_dict, r.upd) /\ UNCHANGED <<pc, exc>>
    /\ UNCHANGED <<table, segs, begin, line, jobs, err, msg, summary_dict, report>>

\* begin = next(f, None) in place of begin = _line: the line that closed the
\* block is passed over
begin_reads_on(l, _line) == IF pos + 1 < Len(log) THEN log[pos + 2] ELSE None

\* if line.startswith("["): begin = _line
begin_after_block(l, _line) == IF startswith(l, <<"[">>) THEN _line ELSE begin

\* int(job_dict["jobid"])
jobid_key_ok(d) ==
    "jobid" \in DOMAIN d /\ (d["jobid"].t = "int" \/ (d["jobid"].t = "str" /\ int_ok(d["jobid"].s)))
jobid_key(d) == IF d["jobid"].t = "int" THEN d["jobid"].n ELSE int_value(d["jobid"].s)

\* jobs[k] = d in place of jobs[k].update(**d): the earlier record is dropped
replace_job(js, k, d) == [j \in DOMAIN js \cup {k} |-> IF j = k THEN d ELSE js[j]]

\* jobs[k].update(**d) on the defaultdict(dict)
merge_job(js, k, d) ==
    [j \in DOMAIN js \cup {k} |->
        IF j = k THEN update(IF k \in DOMAIN js THEN js[k] ELSE EmptyDict, d) ELSE js[j]]

\* the inner loop ends at the next "[" line or at the end of the file; the record
\* is stored under its jobid
BlockEnd ==
    /\ pc = "block" /\ (next_line = None \/ startswith(next_line, <<"[">>))
    /\ pos' = next_pos
    /\ begin' = begin_after_block(line, next_line)
    /\ IF "jobid" \notin DOMAIN job_dict
       THEN Abort("KeyError", "__parse_jobs_in_log") /\ UNCHANGED jobs
       ELSE IF ~jobid_key_ok(job_dict)
       THEN Abort("ValueError", "__parse_jobs_in_log") /\ UNCHANGED jobs
       ELSE /\ jobs' = merge_job(jobs, jobid_key(job_dict), job_dict)
            /\ pc' = "scan"
            /\ UNCHANGED exc
    /\ UNCHANGED <<table, segs, line, job_dict, result, err, msg, summary_dict, report>>

Terminal(e, m) ==
    /\ line' = begin
    /\ job_dict' = EmptyDict
    /\ err' = e /\ msg' = m
    /\ pc' = "parsed"
    /\ UNCHANGED <<table, segs, pos, begin, result, jobs, exc, summary_dict, report>>

TerminalError ==
    /\ pc = "scan" /\ begin # None /\ ~opens_block(begin)
    /\ has_error_label(begin)
    /\ Terminal("ERROR", "Snakemake exited with an error")

TerminalUnlocked ==
    /\ pc = "scan" /\ begin # None /\ ~opens_block(begin)
    /\ ~has_error_label(begin)
    /\ startswith(begin, <<"U","n","l","o","c","k","i","n","g">>)
    /\ Terminal("UNLOCKED", "Snakemake directory was unlocked")

TerminalSuccess ==
    /\ pc = "scan" /\ begin # None /\ ~opens_block(begin)
    /\ ~has_error_label(begin) /\ ~startswith(begin, <<"U","n","l","o","c","k","i","n","g">>)
    /\ startswith(begin, <<"N","o","t","h","i","n","g"," ","t","o"," ","b","e"," ","d","o","n","e">>)
    /\ Terminal("SUCCESS", "Nothing to be done")

\* else: begin = next(f, None)
Skip ==
    /\ pc = "scan" /\ begin # None /\ ~opens_block(begin)
    /\ ~has_error_label(begin) /\ ~startswith(begin, <<"U","n","l","o","c","k","i","n","g">>)
    /\ ~startswith(begin, <<"N","o","t","h","i","n","g"," ","t","o"," ","b","e"," ","d","o","n","e">>)
    /\ line' = begin
    /\ job_dict' = EmptyDict
    /\ begin' = next_line
    /\ pos' = next_pos
    /\ UNCHANGED <<pc, table, segs, result, jobs, err, msg, exc, summary_dict, report>>

\* the while loop ends when begin is None: f.close(); return err, msg, jobs
EndOfStream ==
    /\ pc = "scan" /\ begin = None
    /\ line' = begin
    /\ pc' = "parsed"
    /\ UNCHANGED <<table, segs, pos, begin, job_dict, result, jobs, err, msg,
                   exc, summary_dict, report>>

-----------------------------------------------------------------------------
(* SnakeObject._execution_summary: the loop over jobs.values() *)

get(d, k, default) == IF k \in DOMAIN d THEN d[k] ELSE default

\* one pass of the loop: count the job under its rule, and under its status
count_job(summary, v) ==
    LET rule == v["rule"].s
        old == get(summary, rule, EmptyDict)
        counted == (<<"n","u","m","b","e","r","_","o","f","_","j","o","b","s">> :> (get(old, <<"n","u","m","b","e","r","_","o","f","_","j","o","b","s">>, 0) + 1)) @@ old
        withStatus ==
            IF "status" \in DOMAIN v
            THEN (v["status"].s :> (get(counted, v["status"].s, 0) + 1)) @@ counted
            ELSE counted
    IN  (rule :> withStatus) @@ summary

\* the loop, over the job identifiers in ks (the counts do not depend on the order)
RECURSIVE summarize(_, _, _)
summarize(js, ks, summary) ==
    IF ks = {} THEN summary
    ELSE LET k == CHOOSE k \in ks : \A j \in ks : k <= j
         IN  summarize(js, ks \ {k}, count_job(summary, js[k]))

\* v["rule"] raises KeyError on a record without a rule
Summarize ==
    /\ pc = "parsed"
    /\ IF \E k \in DOMAIN jobs : "rule" \notin DOMAIN jobs[k]
       THEN Abort("KeyError", "_execution_summary") /\ UNCHANGED summary_dict
       ELSE /\ summary_dict' = summarize(jobs, DOMAIN jobs, EmptyDict)
            /\ pc' = "summarized"
            /\ UNCHANGED exc
    /\ UNCHANGED <<table, segs, pos, begin, line, job_dict, result, jobs, err, msg,
                   report>>

-----------------------------------------------------------------------------
(* SnakeObject._stats and SnakeObject.status *)

\* itertools.dropwhile(lambda x: "---" not in x, lines)
RECURSIVE drop_to_table(_)
drop_to_table(ls) ==
    IF ls = <<>> \/ contains(Head(ls), <<"-","-","-">>) THEN ls ELSE drop_to_table(Tail(ls))

\* itertools.takewhile(lambda x: "Select jobs" not in x, lines)
RECURSIVE take_table(_)
take_table(ls) ==
    IF ls = <<>> \/ contains(Head(ls), <<"S","e","l","e","c","t"," ","j","o","b","s">>) THEN <<>>
    ELSE <<Head(ls)>> \o take_table(Tail(ls))

\* the rows of the table, each split on whitespace; rule lines and blank
\* lines are passed over
RECURSIVE table_rows(_)
table_rows(ls) ==
    IF ls = <<>> THEN <<>>
    ELSE IF startswith(Head(ls), <<"-","-","-">>) \/ strip(Head(ls), WS) = <<>>
         THEN table_rows(Tail(ls))
         ELSE <<split_ws(Head(ls))>> \o table_rows(Tail(ls))

stats_rows(lines) == table_rows(take_table(drop_to_table(lines)))

\* JobStats(*_line) takes at most its four fields
stats_ok(lines) == \A i \in 1..Len(stats_rows(lines)) : Len(stats_rows(lines)[i]) <= 4

\* stats_[_line[0]] = JobStats(*_line): name -> count, None when the row has no
\* second column; a later row replaces an earlier one of the same name
_stats(lines) ==
    LET rows == stats_rows(lines)
        names == { rows[i][1] : i \in 1..Len(rows) }
        last(n) == CHOOSE i \in 1..Len(rows) :
                      rows[i][1] = n /\ \A j \in (i + 1)..Len(rows) : rows[j][1] # n
    IN  [n \in names |-> IF Len(rows[last(n)]) >= 2 THEN rows[last(n)][2] ELSE None]

\* the sum over the rows other than "total" of the rule's count of a status
RECURSIVE total_so_far(_, _, _)
total_so_far(names, summary, status) ==
    IF names = {} THEN 0
    ELSE LET n == CHOOSE n \in names : TRUE
         IN  (IF n = <<"t","o","t","a","l">> THEN 0 ELSE get(get(summary, n, EmptyDict), status, 0))
             + total_so_far(names \ {n}, summary, status)

\* stats.get("total", JobStats).count: the class attribute JobStats.count is None
planned_total(stats) == get(stats, <<"t","o","t","a","l">>, None)

\* int((x / total) * 100) for x >= 0 and total # 0, truncated towards zero
percent(x, total) ==
    IF total > 0 THEN (x * 100) \div total ELSE 0 - ((x * 100) \div (0 - total))

Report ==
    /\ pc = "summarized"
    /\ IF ~stats_ok(log)
       THEN Abort("TypeError", "status") /\ UNCHANGED report
       ELSE IF summary_dict = EmptyDict
       THEN pc' = "exited" /\ UNCHANGED <<exc, report>>
       ELSE LET stats == _stats(log)
                fin   == total_so_far(DOMAIN stats, summary_dict, <<"f","i","n","i","s","h","e","d">>)
                fail  == total_so_far(DOMAIN stats, summary_dict, <<"f","a","i","l","e","d">>)
                count == planned_total(stats)
            IN  IF count = None
                THEN Abort("TypeError", "status") /\ UNCHANGED report
                ELSE IF ~int_ok(count)
                THEN Abort("ValueError", "status") /\ UNCHANGED report
                ELSE IF int_value(count) = 0
                THEN Abort("ZeroDivisionError", "status") /\ UNCHANGED report
                ELSE /\ report' = [total_finished |-> fin, total_failed |-> fail,
                                   pct_finished |-> percent(fin, int_value(count)),
                                   pct_failed |-> percent(fail, int_value(count)),
                                   phrase |-> IF fin < int_value(count)
                                              THEN "Only finished"
                                              ELSE "Successfully finished"]
                     /\ pc' = "reported"
                     /\ UNCHANGED exc
    /\ UNCHANGED <<table, segs, pos, begin, line, job_dict, result, jobs, err, msg,
                   summary_dict>>

-----------------------------------------------------------------------------
Next ==
    \/ Open
    \/ OpenBlock
    \/ BlockLine
    \/ BlockEnd
    \/ TerminalError
    \/ TerminalUnlocked
    \/ TerminalSuccess
    \/ Skip
    \/ EndOfStream
    \/ Summarize
    \/ Report

Spec == Init /\ [][Next]_vars

-----------------------------------------------------------------------------
(* What the specification says of the classifier (section 4.1) *)

PyNone == [t |-> "none", n |-> 0, s |-> <<>>, l |-> <<>>, m |-> {}]

Finished(d) == "status" \in DOMAIN d /\ d["status"] = PyStr(<<"f","i","n","i","s","h","e","d">>)
Failed == "status" :> PyStr(<<"f","a","i","l","e","d">>)

\* C1: for every trimmed, non-empty line and every current record the
\* classifier returns a field mapping and never raises, and a bare field
\* keyword yields the documented empty or default value.
C1_ClassifierNeverRaises ==
    pc = "returned" =>
        /\ result.exc = ""
        /\ (line = <<"o","u","t","p","u","t">> => result.upd = ("output" :> PyList(<<>>)))
        /\ (line = <<"i","n","p","u","t">> => result.upd = ("input" :> PyList(<<>>)))
        /\ (line = <<"p","a","r","a","m","s">> => result.upd = ("params" :> PyDict({})))
        /\ (line = <<"w","i","l","d","c","a","r","d","s">> => result.upd = ("wildcards" :> PyDict({})))
        /\ (line = <<"r","e","s","o","u","r","c","e","s">> => result.upd = ("resources" :> PyDict({})))
        /\ (line = <<"j","o","b","i","d">> => result.upd = ("jobid" :> PyNone))
        /\ (line = <<"l","o","g">> => result.upd = ("log" :> PyStr(<<>>)))
        /\ (line = <<"t","h","r","e","a","d","s">> => result.upd = ("threads" :> PyInt(1)))

\* The prefixes of rules 1 to 11 of the priority list, in its order.
EarlierPrefixes ==
    <<<<"r","u","l","e">>, <<"l","o","c","a","l","r","u","l","e">>, <<"E","r","r","o","r"," ","i","n">>, <<"c","l","u","s","t","e","r","_","j","o","b","i","d">>, <<"F","i","n","i","s","h","e","d">>,
      <<"i","n","p","u","t">>, <<"o","u","t","p","u","t">>, <<"E","r","r","o","r">>, <<"p","a","r","a","m","s">>, <<"w","i","l","d","c","a","r","d","s">>,
      <<"r","e","s","o","u","r","c","e","s">>, <<"j","o","b","i","d">>, <<"l","o","g">>, <<"t","h","r","e","a","d","s">>, <<"S","u","b","m","i","t","t","e","d">>>>

EarlierRuleMatches(l) ==
    \E i \in 1..Len(EarlierPrefixes) : startswith(l, EarlierPrefixes[i])

\* "keyword: value": the text after the first colon, and its comma-separated
\* entries, each trimmed
AfterFirstColon(l) == SubSeq(l, find(l, {":"}) + 1, Len(l))
Entries(l) ==
    LET items == split(AfterFirstColon(l), ",")
    IN  [i \in 1..Len(items) |-> strip(items[i], WS)]
HasValue(l, key) ==
    startswith(l, key \o <<":">>) /\ strip(AfterFirstColon(l), WS) # <<>>
IsInteger(s) == s # <<>> /\ \A i \in 1..Len(s) : s[i] \in DIGITS
IsKeyValue(s) == Len(split(s, "=")) = 2 /\ split(s, "=")[1] # <<>>
KeyValues(l) ==
    { <<split(Entries(l)[i], "=")[1], split(Entries(l)[i], "=")[2]>> : i \in 1..Len(Entries(l)) }
DistinctKeys(l) ==
    \A i, j \in 1..Len(Entries(l)) :
        i # j => split(Entries(l)[i], "=")[1] # split(Entries(l)[j], "=")[1]

\* The field shapes of the claim, and the update the priority list gives each.
IsRuleLine(l) ==
    Len(split_ws(l)) >= 2 /\ split_ws(l)[1] \in {<<"r","u","l","e">>, <<"l","o","c","a","l","r","u","l","e">>}
IsErrorInLine(l) == startswith(l, <<"E","r","r","o","r"," ","i","n"," ">>) /\ Len(split_ws(l)) >= 3
IsIntLine(l, key) == HasValue(l, key) /\ IsInteger(strip(AfterFirstColon(l), WS))
IsListLine(l, key) == HasValue(l, key) /\ \A i \in 1..Len(Entries(l)) : Entries(l)[i] # <<>>
IsMapLine(l, key) ==
    HasValue(l, key) /\ DistinctKeys(l) /\ \A i \in 1..Len(Entries(l)) : IsKeyValue(Entries(l)[i])
IsUnrecognized(l, d) ==
    ~EarlierRuleMatches(l) /\ (~has_error_label(l) \/ Finished(d))

LastToken(l) == split_ws(l)[Len(split_ws(l))]

Recognized(l, d) ==
    \/ IsRuleLine(l) \/ IsErrorInLine(l)
    \/ IsIntLine(l, <<"j","o","b","i","d">>) \/ IsIntLine(l, <<"t","h","r","e","a","d","s">>)
    \/ HasValue(l, <<"l","o","g">>)
    \/ IsListLine(l, <<"i","n","p","u","t">>) \/ IsListLine(l, <<"o","u","t","p","u","t">>)
    \/ IsMapLine(l, <<"p","a","r","a","m","s">>) \/ IsMapLine(l, <<"w","i","l","d","c","a","r","d","s">>) \/ IsMapLine(l, <<"r","e","s","o","u","r","c","e","s">>)
    \/ IsUnrecognized(l, d)

Documented(l, d) ==
    IF IsRuleLine(l) THEN "rule" :> PyStr(strip(split_ws(l)[2], {":"}))
    ELSE IF IsErrorInLine(l) THEN ("rule" :> PyStr(strip(LastToken(l), {":"}))) @@ Failed
    ELSE IF IsIntLine(l, <<"j","o","b","i","d">>)
         THEN "jobid" :> PyInt(digits_value(strip(AfterFirstColon(l), WS)))
    ELSE IF IsIntLine(l, <<"t","h","r","e","a","d","s">>)
         THEN "threads" :> PyInt(digits_value(strip(AfterFirstColon(l), WS)))
    ELSE IF HasValue(l, <<"l","o","g">>) THEN "log" :> PyStr(strip(AfterFirstColon(l), WS))
    ELSE IF IsListLine(l, <<"i","n","p","u","t">>) THEN "input" :> PyList(Entries(l))
    ELSE IF IsListLine(l, <<"o","u","t","p","u","t">>) THEN "output" :> PyList(Entries(l))
    ELSE IF IsMapLine(l, <<"p","a","r","a","m","s">>) THEN "params" :> PyDict(KeyValues(l))
    ELSE IF IsMapLine(l, <<"w","i","l","d","c","a","r","d","s">>) THEN "wildcards" :> PyDict(KeyValues(l))
    ELSE IF IsMapLine(l, <<"r","e","s","o","u","r","c","e","s">>) THEN "resources" :> PyDict(KeyValues(l))
    ELSE "kwargs" :> PyStr(l)

\* C2: for every line of a recognized field shape the classifier returns
\* exactly the update of the first matching rule of the priority list: the
\* rule name, the integer jobid or threads, the trimmed log path, the ordered
\* list of trimmed comma-separated entries, the mapping of k=v entries, and,
\* for a line matching no rule, the line itself under kwargs.
C2_FirstMatchingRule ==
    (pc = "returned" /\ Recognized(line, job_dict)) =>
        result = Return(Documented(line, job_dict))

\* C10 as stated: on every line that begins with an entry of the error
\* catalog, a finished record is not marked failed, and any other record is.
C10_CatalogLineNeverFailsFinished ==
    (pc = "returned" /\ has_error_label(line)) =>
        IF Finished(job_dict)
        THEN ~("status" \in DOMAIN result.upd /\ result.upd["status"] = PyStr(<<"f","a","i","l","e","d">>))
        ELSE result = Return(Failed)

\* C10, amended: on every line that begins with an entry of the error catalog
\* and with none of the prefixes of rules 1 to 11 (this leaves out the lines
\* that begin with "Error", the entry "Error:" among them, which rule 6 marks
\* failed whatever the record), a finished record gets the line under kwargs
\* and stays finished, and any other record is marked failed.
C10_CatalogLineAfterEarlierRules ==
    (pc = "returned" /\ has_error_label(line) /\ ~EarlierRuleMatches(line)) =>
        IF Finished(job_dict)
        THEN /\ result = Return("kwargs" :> PyStr(line))
             /\ Finished(update(job_dict, result.upd))
        ELSE result = Return(Failed)

C10_Witness ==
    /\ pc = "returned"
    /\ line = <<"W","o","r","k","f","l","o","w","E","r","r","o","r",":">>
    /\ Finished(job_dict)
    /\ result = Return("kwargs" :> PyStr(line))

-----------------------------------------------------------------------------
(* What the specification says of the assembler, the summarizer and the    *)
(* status view                                                             *)

InParse == "__parse_jobs_in_log"
InSummary == "_execution_summary"
InStatus == "status"

\* the parse has returned its tuple
ParseReturned ==
    \/ pc \in {"parsed", "summarized", "reported", "exited"}
    \/ pc = "raised" /\ exc.where # InParse

\* the summary has been returned
SummaryReturned ==
    \/ pc \in {"summarized", "reported", "exited"}
    \/ pc = "raised" /\ exc.where = InStatus

\* the job a block is about, and the status it writes (None: it writes none)
SegJob(name) ==
    CASE name \in {"B1", "F1"} -> 1
      [] name \in {"B2", "E2"} -> 2
      [] name = "B3" -> 3
SegStatus(name) ==
    CASE name = "F1" -> <<"f","i","n","i","s","h","e","d">>
      [] name = "E2" -> <<"f","a","i","l","e","d">>
      [] OTHER -> None

\* a log of blocks, each with a jobid line, of pairwise distinct jobs
WellFormedBlocks ==
    /\ segs # <<>>
    /\ \A i \in 1..Len(segs) : segs[i] \in {"B1", "B2", "B3", "E2"}
    /\ \A i, j \in 1..Len(segs) : i # j => SegJob(segs[i]) # SegJob(segs[j])

\* C3: a well-formed log of N timestamp-delimited blocks, each with a jobid
\* line, of pairwise distinct job identifiers, is parsed without a fault into
\* a job mapping of exactly N entries keyed by those identifiers.
C3_EveryBlockStored ==
    WellFormedBlocks =>
        /\ exc.where # InParse
        /\ ParseReturned =>
              /\ DOMAIN jobs = { SegJob(segs[i]) : i \in 1..Len(segs) }
              /\ Cardinality(DOMAIN jobs) = Len(segs)

C3_Witness ==
    /\ pc = "parsed"
    /\ WellFormedBlocks
    /\ Len(segs) = 2
    /\ Cardinality(DOMAIN jobs) = 2

\* a line that ends the run: an entry of the error catalog, "Unlocking" or
\* "Nothing to be done", and the outcome that goes with it
TerminalMarker(l) ==
    \/ has_error_label(l)
    \/ startswith(l, <<"U","n","l","o","c","k","i","n","g">>)
    \/ startswith(l, <<"N","o","t","h","i","n","g"," ","t","o"," ","b","e"," ","d","o","n","e">>)
MarkerOutcome(l) ==
    IF has_error_label(l) THEN "ERROR"
    ELSE IF startswith(l, <<"U","n","l","o","c","k","i","n","g">>) THEN "UNLOCKED"
    ELSE "SUCCESS"

\* C4: when the scan for a block reads a terminal marker line it stops at
\* once with the matching outcome, and the job mapping is the one accumulated
\* before that line.
C4_TerminalMarkerStopsScan ==
    [][(pc = "scan" /\ begin # None /\ TerminalMarker(begin)) =>
          (pc' = "parsed" /\ err' = MarkerOutcome(begin) /\ jobs' = jobs /\ pos' = pos)]_vars

\* C5: the assembler never aborts: whatever the lines of the log, it returns
\* its result tuple and raises nothing.
C5_AssemblerNeverAborts == exc.where # InParse

RECURSIVE SumJobs(_, _)
SumJobs(summary, rules) ==
    IF rules = {} THEN 0
    ELSE LET r == CHOOSE r \in rules : TRUE
         IN  summary[r][<<"n","u","m","b","e","r","_","o","f","_","j","o","b","s">>] + SumJobs(summary, rules \ {r})

\* C6: for every job mapping handed to the summarizer, a summary results and
\* its number_of_jobs, summed over the rules, is the number of entries of the
\* job mapping.
C6_SummaryCountsEveryJob ==
    /\ exc.where # InSummary
    /\ SummaryReturned => SumJobs(summary_dict, DOMAIN summary_dict) = Cardinality(DOMAIN jobs)

\* a log whose jobs all belong to rule a, where a "Finished" block comes after
\* the block that opened its job
SameRuleLog ==
    /\ segs # <<>>
    /\ \A i \in 1..Len(segs) :
          /\ segs[i] \in {"B1", "B2", "F1", "E2"}
          /\ segs[i] = "F1" => \E j \in 1..(i - 1) : segs[j] = "B1"

JobIds == { SegJob(segs[i]) : i \in 1..Len(segs) }

\* the status written last for job j, None when no block wrote one
LastStatus(j) ==
    LET writes == { i \in 1..Len(segs) : SegJob(segs[i]) = j /\ SegStatus(segs[i]) # None }
    IN  IF writes = {} THEN None
        ELSE SegStatus(segs[CHOOSE i \in writes : \A k \in writes : k <= i])

ExpectedCounts ==
    [k \in {<<"n","u","m","b","e","r","_","o","f","_","j","o","b","s">>} \cup ({ LastStatus(j) : j \in JobIds } \ {None}) |->
        IF k = <<"n","u","m","b","e","r","_","o","f","_","j","o","b","s">> THEN Cardinality(JobIds)
        ELSE Cardinality({ j \in JobIds : LastStatus(j) = k })]

\* C7: for a log whose jobs all belong to one rule, later blocks being merged
\* into the record opened for their job, the summary has one rule entry, with
\* number_of_jobs the number of distinct job identifiers and, per status, the
\* number of jobs whose last-written status it is.
C7_OneRuleEntry ==
    SameRuleLog =>
        /\ exc.where \notin {InParse, InSummary}
        /\ SummaryReturned => summary_dict = (<<"a">> :> ExpectedCounts)

\* job 1 finished and job 2 failed: number_of_jobs=2, finished=1, failed=1
C7_Witness ==
    /\ pc = "summarized"
    /\ SameRuleLog
    /\ summary_dict = (<<"a">> :> ((<<"n","u","m","b","e","r","_","o","f","_","j","o","b","s">> :> 2) @@ (<<"f","i","n","i","s","h","e","d">> :> 1)
                                   @@ (<<"f","a","i","l","e","d">> :> 1)))

\* C8: when the planned total is 0, or the table has no "total" row, the
\* status view raises nothing and reports 0% finished and 0% failed.
C8_NoPlannedJobsIsZeroPercent ==
    table \in {"none", "nototal", "planned0"} =>
        /\ exc.where # InStatus
        /\ pc = "reported" => (report.pct_finished = 0 /\ report.pct_failed = 0)

\* C9: every parse ends with an outcome of SnakemakeStatus, and a stream that
\* ends without a terminal marker ends with CATCHALL_ERROR.
C9_OutcomeIsNeverAbsent ==
    pc = "parsed" =>
        /\ err \in SnakemakeStatus
        /\ (begin = None => err = "CATCHALL_ERROR")

====
